---------------------------- MODULE Spec2Model ----------------------------
(***************************************************************************)
(* The chat front end of src/src/App.jsx (the App component: its state,    *)
(* its event handlers and the controls that invoke them) together with the *)
(* HTTP client of src/src/services/api.js.                                  *)
(*                                                                         *)
(* JavaScript strings are TLA+ strings.  A value that may be null or       *)
(* undefined is a sequence of length at most one: <<>> is null/undefined   *)
(* and <<v>> is the value v.  React state updates are taken to be          *)
(* committed (rendered) before the next event is delivered, so a control's *)
(* `disabled` attribute and a handler's closure always show the current    *)
(* state.  Pictographs at the start of message texts are left out.         *)
(***************************************************************************)
EXTENDS Integers, Sequences, FiniteSets, TLC

\* ------------------------------------------------------------------ bounds
MaxRequests == 2      \* user requests (chat or validation) dispatched in a run
MaxHealthChecks == 1  \* interval ticks of the health timer in a run
MaxTicks == 1         \* advances of the clock in a run

\* --------------------------------------------------------------- strings
Null == <<>>
Some(v) == <<v>>

\* JavaScript truthiness of a string-or-null: null, undefined and "" are falsy.
Truthy(opt) == opt # Null /\ opt[1] # ""

\* a || b for a string-or-null a and a string b
OrElse(opt, default) == IF Truthy(opt) THEN opt[1] ELSE default

\* `${x}` for a string-or-undefined x
Template(opt) == IF opt = Null THEN "undefined" ELSE opt[1]

WhiteSpace == {" ", "\t", "\n"}

RECURSIVE TrimStart(_)
TrimStart(s) ==
    IF Len(s) > 0 /\ SubSeq(s, 1, 1) \in WhiteSpace
    THEN TrimStart(SubSeq(s, 2, Len(s)))
    ELSE s

RECURSIVE TrimEnd(_)
TrimEnd(s) ==
    IF Len(s) > 0 /\ SubSeq(s, Len(s), Len(s)) \in WhiteSpace
    THEN TrimEnd(SubSeq(s, 1, Len(s) - 1))
    ELSE s

\* no trimming at all
TrimNothing(s) == s

\* String.prototype.trim
Trim(s) == TrimEnd(TrimStart(s))

\* String.prototype.includes
Includes(s, sub) ==
    \E i \in 1..(Len(s) - Len(sub) + 1) : SubSeq(s, i, i + Len(sub) - 1) = sub

\* String.prototype.startsWith
StartsWith(s, pre) == Len(s) >= Len(pre) /\ SubSeq(s, 1, Len(pre)) = pre


\* ------------------------------------------------------------ the backend
(* What a fetch can come back with.  net = "reject": the promise rejects    *)
(* (no connection).  Otherwise a response with a status; json tells whether *)
(* the body parses as JSON and data is the parsed body, Null for the JSON   *)
(* value null.                                                              *)
HttpOk(status) == status \in 200..299

StatusText(status) ==
    CASE status = 200 -> "200"
      [] status = 404 -> "404"
      [] status = 500 -> "500"

FetchErrorMessage == "Failed to fetch"
JsonErrorMessage == "Unexpected token < in JSON at position 0"
NullReadMessage == "Cannot read properties of null"

Rejected == [net |-> "reject", status |-> 0, json |-> FALSE, data |-> Null]
Response(status, data) ==
    [net |-> "response", status |-> status, json |-> TRUE, data |-> data]
NotJson(status) ==
    [net |-> "response", status |-> status, json |-> FALSE, data |-> Null]

\* bodies of POST /api/chat
ChatBodies ==
    { Some([success |-> TRUE, finalResponse |-> "answer",
            functionCalls |-> Some(<<[name |-> "get_files_info"]>>),
            error |-> Null]),
      Some([success |-> FALSE, finalResponse |-> "", functionCalls |-> Null,
            error |-> Some("boom")]),
      Some([success |-> FALSE, finalResponse |-> "", functionCalls |-> Null,
            error |-> Null]) }

ChatResponses ==
    {Rejected, NotJson(500)}
        \cup {Response(st, b) : st \in {200, 500}, b \in ChatBodies}

\* bodies of POST /api/validate-repo
RepoBodies ==
    { Some([valid |-> TRUE, error |-> Null, type |-> Null, branch |-> Some("dev"),
            code_files |-> Some("3"), total_files |-> Some("7"),
            size_mb |-> Some("1"), last_commit |-> Null,
            fileCount |-> Null, dirCount |-> Null]),
      Some([valid |-> FALSE, error |-> Some("not found"), type |-> Null,
            branch |-> Null, code_files |-> Null, total_files |-> Null,
            size_mb |-> Null, last_commit |-> Null,
            fileCount |-> Null, dirCount |-> Null]),
      Null }

\* bodies of POST /api/validate-directory
DirBodies ==
    { Some([valid |-> TRUE, error |-> Null, type |-> Some("directory"),
            branch |-> Null, code_files |-> Null, total_files |-> Null,
            size_mb |-> Null, last_commit |-> Null,
            fileCount |-> Some("7"), dirCount |-> Some("2")]),
      Some([valid |-> TRUE, error |-> Null, type |-> Some("git_repository"),
            branch |-> Null, code_files |-> Some("3"), total_files |-> Null,
            size_mb |-> Null, last_commit |-> Null,
            fileCount |-> Null, dirCount |-> Null]),
      Some([valid |-> FALSE, error |-> Null, type |-> Null,
            branch |-> Null, code_files |-> Null, total_files |-> Null,
            size_mb |-> Null, last_commit |-> Null,
            fileCount |-> Null, dirCount |-> Null]),
      Null }

RepoResponses ==
    {Rejected, NotJson(200)}
        \cup {Response(st, b) : st \in {200, 404}, b \in RepoBodies}

DirResponses ==
    {Rejected, NotJson(200)}
        \cup {Response(st, b) : st \in {200, 404}, b \in DirBodies}

HealthResponses ==
    { Rejected, NotJson(200), NotJson(500), Response(200, Null),
      Response(299, Null), Response(300, Null), Response(500, Null) }

\* ------------------------------------------------------------ api.js
(* The result of an API client call: threw tells whether the promise it     *)
(* returned rejected (message is then the Error's message), value is what   *)
(* it resolved to otherwise.                                                *)
Threw(msg) == [threw |-> TRUE, message |-> msg, value |-> Null]
Returned(v) == [threw |-> FALSE, message |-> "", value |-> v]

\* sendPrompt: every failure is logged and thrown again
sendPrompt(resp) ==
    IF resp.net = "reject" THEN Threw(FetchErrorMessage)
    ELSE IF ~resp.json THEN Threw(JsonErrorMessage)
    ELSE IF ~HttpOk(resp.status)
         THEN IF resp.data = Null
              THEN Threw(NullReadMessage)
              ELSE Threw(OrElse(resp.data[1].error,
                                "HTTP error! status: " \o StatusText(resp.status)))
    ELSE Returned(resp.data)

ValidationFailure(msg) ==
    Some([valid |-> FALSE, error |-> Some(msg), type |-> Null,
          branch |-> Null, code_files |-> Null, total_files |-> Null,
          size_mb |-> Null, last_commit |-> Null,
          fileCount |-> Null, dirCount |-> Null])

\* validateDirectory: the body whatever the status; a failure becomes a value
validateDirectory(resp) ==
    IF resp.net = "reject" THEN Returned(ValidationFailure(FetchErrorMessage))
    ELSE IF ~resp.json THEN Returned(ValidationFailure(JsonErrorMessage))
    ELSE Returned(resp.data)

\* validateRepository with a catch block that throws the failure again
validateRepositoryRethrows(resp) ==
    IF resp.net = "reject" THEN Threw(FetchErrorMessage)
    ELSE IF ~resp.json THEN Threw(JsonErrorMessage)
    ELSE Returned(resp.data)

\* validateRepository: the same code as validateDirectory on another endpoint
validateRepository(resp) ==
    IF resp.net = "reject" THEN Returned(ValidationFailure(FetchErrorMessage))
    ELSE IF ~resp.json THEN Returned(ValidationFailure(JsonErrorMessage))
    ELSE Returned(resp.data)

\* checkBackendHealth returning before it parses the body
checkBackendHealthUnparsed(resp) ==
    IF resp.net = "reject"
    THEN Returned([healthy |-> FALSE, error |-> Some(FetchErrorMessage)])
    ELSE Returned([healthy |-> HttpOk(resp.status), error |-> Null])

\* checkBackendHealth: healthy is response.ok, and only if the body parses
checkBackendHealth(resp) ==
    IF resp.net = "reject"
    THEN Returned([healthy |-> FALSE, error |-> Some(FetchErrorMessage)])
    ELSE IF ~resp.json
    THEN Returned([healthy |-> FALSE, error |-> Some(JsonErrorMessage)])
    ELSE Returned([healthy |-> HttpOk(resp.status), error |-> Null])


\* ------------------------------------------------------------- the state
VARIABLES
    messages,          \* App.jsx:6   the chat history
    inputMessage,      \* App.jsx:15  the input buffer
    verboseMode,       \* App.jsx:16
    isTyping,          \* App.jsx:17  the pending flag
    workingDirectory,  \* App.jsx:18  the target
    backendStatus,     \* App.jsx:19
    error,             \* App.jsx:20  the session error, Null or Some(text)
    mounted,           \* whether the component is mounted
    interval,          \* the health timer of App.jsx:35: "running" or "cleared"
    now,               \* the latest reading of Date.now()
    calls,             \* the handler invocations suspended at their await
    healthCalls,       \* the checkHealth invocations suspended at their await
    dispatched,        \* number of user requests sent so far
    healthStarted,     \* number of health checks the timer has started so far
    last               \* the most recent event and its outcome

vars == <<messages, inputMessage, verboseMode, isTyping, workingDirectory,
          backendStatus, error, mounted, interval, now, calls, healthCalls,
          dispatched, healthStarted, last>>

ui == <<inputMessage, verboseMode>>
life == <<mounted, interval>>

StartTime == 2

Greeting ==
    "Hello! I'm your AI Coding Buddy. I can analyze your codebase, understand project structure, and help with development tasks. Just provide a local directory path or Git repository URL!"

DefaultDirectory == "https://github.com/microsoft/calculator"

BackendUnavailable == "Backend is not available. Please start the Flask server."

(* A message created when the clock reads t.  The timestamp is the clock    *)
(* reading that toLocaleTimeString() formats.                               *)
Message(t, id, type, content, functionCalls) ==
    [id |-> id, type |-> type, content |-> content, timestamp |-> t,
     functionCalls |-> functionCalls]

(* Date.now() is read only when a handler builds a message.  The clock      *)
(* never goes back: a reading is the previous reading or a later one.       *)
Readings == {t \in now..(now + 1) : t <= StartTime + MaxTicks}

\* what the user may type into the input box
Inputs == {"", " \t", " hi "}

\* what the user may answer to the prompt() dialog; Null is Cancel
Paths ==
    { Null, Some(""), Some("https://github.com/foo/bar"),
      Some("/home/user/project") }

\* a component that takes the backend for healthy before the first check
InitHealthy ==
    /\ messages = <<Message(StartTime, 1, "ai", Greeting, Null)>>
    /\ inputMessage = ""
    /\ verboseMode = FALSE
    /\ isTyping = FALSE
    /\ workingDirectory = DefaultDirectory
    /\ backendStatus = [healthy |-> TRUE, checking |-> FALSE]
    /\ error = Null
    /\ mounted = TRUE
    /\ interval = "running"
    /\ now = StartTime
    /\ calls = {}
    /\ healthCalls = {0}
    /\ dispatched = 0
    /\ healthStarted = 0
    /\ last = [op |-> "mount"]

\* lines 5-20 and the mount effect of lines 23-37
Init ==
    /\ messages = <<Message(StartTime, 1, "ai", Greeting, Null)>>
    /\ inputMessage = ""
    /\ verboseMode = FALSE
    /\ isTyping = FALSE
    /\ workingDirectory = DefaultDirectory
    /\ backendStatus = [healthy |-> FALSE, checking |-> TRUE]
    /\ error = Null
    /\ mounted = TRUE
    /\ interval = "running"
    /\ now = StartTime
    /\ calls = {}
    /\ healthCalls = {0}
    /\ dispatched = 0
    /\ healthStarted = 0
    /\ last = [op |-> "mount"]

\* ------------------------------------------------- the controls (the JSX)
\* a Send button that does not look at the backend status
SendDisabledWhateverHealth == Trim(inputMessage) = "" \/ isTyping

\* the Send button: disabled={!inputMessage.trim() || isTyping || !backendStatus.healthy}
SendDisabled == Trim(inputMessage) = "" \/ isTyping \/ ~backendStatus.healthy

\* the input box: disabled={!backendStatus.healthy || isTyping}
InputDisabled == ~backendStatus.healthy \/ isTyping

\* the Change button without its disabled attribute
ChangeNeverDisabled == FALSE

\* the Change button: disabled={isTyping}
ChangeDisabled == isTyping

\* the error banner and its dismiss button: {error && (...)}
BannerShown == Truthy(error)

\* --------------------------------------------------- simple event handlers
(* The verbose toggle.  The cover page (showCover) only hides this button  *)
(* until it is slid away, which the user can do at any time and which      *)
(* touches no other state, so the cover is left out.                       *)
toggleVerbose ==
    /\ mounted
    /\ verboseMode' = ~verboseMode
    /\ last' = [op |-> "other"]
    /\ UNCHANGED <<messages, inputMessage, isTyping, workingDirectory,
                   backendStatus, error, life, now, calls, healthCalls,
                   dispatched, healthStarted>>

\* the input box's onChange
changeInput(text) ==
    /\ mounted /\ ~InputDisabled
    /\ text # inputMessage
    /\ inputMessage' = text
    /\ last' = [op |-> "other"]
    /\ UNCHANGED <<messages, verboseMode, isTyping, workingDirectory,
                   backendStatus, error, life, now, calls, healthCalls,
                   dispatched, healthStarted>>

\* a dismiss button that also drops the pending flag
clearErrorAndFlag ==
    /\ mounted /\ BannerShown
    /\ error' = Null
    /\ isTyping' = FALSE
    /\ last' = [op |-> "clearError"]
    /\ UNCHANGED <<ui, messages, workingDirectory, backendStatus,
                   life, now, calls, healthCalls, dispatched, healthStarted>>

\* lines 186-188, run by the banner's dismiss button (line 265)
clearError ==
    /\ mounted /\ BannerShown
    /\ error' = Null
    /\ last' = [op |-> "clearError"]
    /\ UNCHANGED <<ui, messages, isTyping, workingDirectory, backendStatus,
                   life, now, calls, healthCalls, dispatched, healthStarted>>

\* ------------------------------------------------------ handleSendMessage
\* line 41: if (!inputMessage.trim() || isTyping) return
SubmitReturnsEarly == Trim(inputMessage) = "" \/ isTyping

\* lines 46-51
UserMessage(t) == Message(t, t, "user", inputMessage, Null)

\* lines 44-56 without the setIsTyping(true) of line 56
SubmitWritesNoFlag(t) ==
    [error |-> Null,
     messages |-> Append(messages, UserMessage(t)),
     inputMessage |-> "",
     isTyping |-> isTyping]

\* lines 44-56: the state the handler leaves when it suspends at the await
SubmitWrites(t) ==
    [error |-> Null,
     messages |-> Append(messages, UserMessage(t)),
     inputMessage |-> "",
     isTyping |-> TRUE]

\* lines 60-64 with the prompt trimmed before it is sent
SubmitCallTrimmed ==
    [rid |-> dispatched + 1, kind |-> "sendPrompt", arg |-> Trim(inputMessage),
     workingDirectory |-> workingDirectory, verbose |-> verboseMode,
     base |-> Len(messages)]

(* lines 60-64: the request, with the values of the render the handler      *)
(* closed over; base is the length of the history when the handler started. *)
SubmitCall ==
    [rid |-> dispatched + 1, kind |-> "sendPrompt", arg |-> inputMessage,
     workingDirectory |-> workingDirectory, verbose |-> verboseMode,
     base |-> Len(messages)]

(* The user presses Send (or Enter in the input box).  A disabled Send      *)
(* button submits nothing; otherwise the form's onSubmit runs the handler.  *)
submitForm ==
    /\ mounted
    /\ IF SendDisabled \/ SubmitReturnsEarly
       THEN /\ last' = [op |-> "submit", outcome |-> "ignored"]
            /\ UNCHANGED <<ui, messages, isTyping, workingDirectory, backendStatus,
                           error, life, now, calls, healthCalls, dispatched,
                           healthStarted>>
       ELSE /\ dispatched < MaxRequests
            /\ \E t \in Readings :
                 /\ now' = t
                 /\ error' = SubmitWrites(t).error
                 /\ messages' = SubmitWrites(t).messages
                 /\ inputMessage' = SubmitWrites(t).inputMessage
                 /\ isTyping' = SubmitWrites(t).isTyping
            /\ calls' = calls \cup {SubmitCall}
            /\ dispatched' = dispatched + 1
            /\ last' = [op |-> "submit", outcome |-> "dispatched"]
            /\ UNCHANGED <<verboseMode, workingDirectory, backendStatus,
                           life, healthCalls, healthStarted>>

\* lines 58-105: which branch the handler takes on the result r of sendPrompt.
\* Reading response.success of a null body throws inside the try block.
ChatBranch(r) ==
    IF r.threw \/ r.value = Null THEN "catch"
    ELSE IF r.value[1].success THEN "success"
    ELSE "failure"

\* the error the catch block of lines 89-102 receives
ChatCaught(r) == IF r.threw THEN r.message ELSE NullReadMessage

\* response.functionCalls?.map(fc => fc.name) || []
FunctionCallNames(fcs) ==
    IF fcs = Null THEN <<>> ELSE [i \in 1..Len(fcs[1]) |-> fcs[1][i].name]

\* lines 68-77, 81-86, 93-98: the message the handler appends
ChatReply(t, r) ==
    CASE ChatBranch(r) = "success" ->
            Message(t, t + 1, "ai", r.value[1].finalResponse,
                    Some(FunctionCallNames(r.value[1].functionCalls)))
      [] ChatBranch(r) = "failure" ->
            Message(t, t + 1, "error",
                    "Error: " \o OrElse(r.value[1].error, "Unknown error occurred"),
                    Null)
      [] ChatBranch(r) = "catch" ->
            Message(t, t + 1, "error",
                    "Failed to process request: " \o ChatCaught(r), Null)

\* lines 78, 87, 99 without the setMessages of line 78
ChatMessagesAfterNoAnswer(t, r) ==
    IF ChatBranch(r) = "success" THEN messages
    ELSE Append(messages, ChatReply(t, r))

\* the reply put in the place of the last message instead of after it
ChatMessagesAfterReplacing(t, r) ==
    Append(SubSeq(messages, 1, Len(messages) - 1), ChatReply(t, r))

\* the reply appended twice
ChatMessagesAfterTwice(t, r) ==
    Append(Append(messages, ChatReply(t, r)), ChatReply(t, r))

\* lines 78, 87, 99
ChatMessagesAfter(t, r) == Append(messages, ChatReply(t, r))

\* the session error set for a failure the backend reports as well
ChatErrorAfterAlsoFailure(r) ==
    CASE ChatBranch(r) = "catch" -> Some(ChatCaught(r))
      [] ChatBranch(r) = "failure" ->
            Some(OrElse(r.value[1].error, "Unknown error occurred"))
      [] OTHER -> error

\* the catch block without the setError of line 102
ChatErrorAfterNever(r) == error

\* line 102: only the catch block sets the session error
ChatErrorAfter(r) ==
    IF ChatBranch(r) = "catch" THEN Some(ChatCaught(r)) ELSE error

\* setIsTyping(false) at the end of the try block instead of in finally
ChatTypingAfterTryOnly(r) == IF ChatBranch(r) = "catch" THEN isTyping ELSE FALSE

\* lines 103-105: finally { setIsTyping(false) }
ChatTypingAfter(r) == FALSE

(* The request of the suspended invocation c comes back with resp and the   *)
(* handler runs to its end.  Updates of an unmounted component are dropped. *)
settleChat(c, resp) ==
    /\ c \in calls /\ c.kind = "sendPrompt"
    /\ resp \in ChatResponses
    /\ calls' = calls \ {c}
    /\ LET r == sendPrompt(resp) IN
       /\ IF mounted
          THEN \E t \in Readings :
                 /\ now' = t
                 /\ messages' = ChatMessagesAfter(t, r)
                 /\ error' = ChatErrorAfter(r)
                 /\ isTyping' = ChatTypingAfter(r)
          ELSE UNCHANGED <<messages, error, isTyping, now>>
       /\ last' = [op |-> "settle", api |-> "sendPrompt",
                   rejected |-> (resp.net = "reject"), threw |-> r.threw,
                   branch |-> ChatBranch(r)]
    /\ UNCHANGED <<ui, workingDirectory, backendStatus, life, healthCalls,
                   dispatched, healthStarted>>

\* -------------------------------------------------- handleDirectoryChange
\* line 118 without its newPath.includes('.git')
IsGitUrlNoDotGit(newPath) ==
    \/ Includes(newPath, "github.com")
    \/ Includes(newPath, "gitlab.com")
    \/ StartsWith(newPath, "https://")
    \/ StartsWith(newPath, "http://")

\* line 118
IsGitUrl(newPath) ==
    \/ Includes(newPath, "github.com")
    \/ Includes(newPath, "gitlab.com")
    \/ Includes(newPath, ".git")
    \/ StartsWith(newPath, "https://")
    \/ StartsWith(newPath, "http://")

\* lines 120-122, 146-148: the one validation call the handler makes
ValidationKind(newPath) ==
    IF IsGitUrl(newPath) THEN "validateRepository" ELSE "validateDirectory"

ChangeCall(newPath) ==
    [rid |-> dispatched + 1, kind |-> ValidationKind(newPath), arg |-> newPath,
     base |-> Len(messages)]

\* line 113 testing for a cancelled dialog only: if (newPath === null) return
ChangeReturnsEarlyOnCancel(newPath) == newPath = Null

\* line 113: if (!newPath) return
ChangeReturnsEarly(newPath) == ~Truthy(newPath)

(* The user presses Change.  A disabled button runs nothing.  Otherwise    *)
(* the handler opens the dialog, which the user answers with one of         *)
(* `answers` (Null when the dialog is cancelled); the handler returns at    *)
(* line 113 or sets the flag and sends one request.                         *)
pressChangeFrom(answers) ==
    /\ mounted
    /\ IF ChangeDisabled
       THEN /\ last' = [op |-> "change", outcome |-> "disabled"]
            /\ UNCHANGED <<ui, messages, isTyping, workingDirectory, backendStatus,
                           error, life, now, calls, healthCalls, dispatched,
                           healthStarted>>
       ELSE \E newPath \in answers :
            IF ChangeReturnsEarly(newPath)
            THEN /\ last' = [op |-> "change", outcome |-> "returned"]
                 /\ UNCHANGED <<ui, messages, isTyping, workingDirectory,
                                backendStatus, error, life, now, calls,
                                healthCalls, dispatched, healthStarted>>
            ELSE /\ dispatched < MaxRequests
                 /\ isTyping' = TRUE
                 /\ calls' = calls \cup {ChangeCall(newPath[1])}
                 /\ dispatched' = dispatched + 1
                 /\ last' = [op |-> "change", outcome |-> "dispatched"]
                 /\ UNCHANGED <<ui, messages, workingDirectory, backendStatus,
                                error, life, now, healthCalls, healthStarted>>

pressChange == pressChangeFrom(Paths)

\* reading validation.valid of a null body throws inside the try block
ValidationBranch(r) ==
    IF r.threw \/ r.value = Null THEN "catch"
    ELSE IF r.value[1].valid THEN "valid"
    ELSE "invalid"

\* lines 128-133, 138-143, 154-161, 166-171
ValidationReply(t, kind, newPath, r) ==
    LET v == r.value[1] IN
    CASE kind = "validateRepository" /\ ValidationBranch(r) = "valid" ->
            Message(t, t, "system",
                    "Git repository connected: " \o newPath
                      \o "\nBranch: " \o OrElse(v.branch, "main")
                      \o "\n" \o OrElse(v.code_files, "0") \o " code files, "
                      \o OrElse(v.total_files, "0") \o " total files ("
                      \o OrElse(v.size_mb, "0") \o "MB)"
                      \o "\nLast commit: " \o OrElse(v.last_commit, "Unknown"),
                    Null)
      [] kind = "validateRepository" /\ ValidationBranch(r) = "invalid" ->
            Message(t, t, "error",
                    "Git repository validation failed: " \o Template(v.error), Null)
      [] kind = "validateDirectory" /\ ValidationBranch(r) = "valid" ->
            Message(t, t, "system",
                    IF v.type = Some("git_repository")
                    THEN "Git repository connected: " \o newPath
                           \o "\n" \o OrElse(v.code_files, "0") \o " code files, "
                           \o OrElse(v.total_files, "0") \o " total files"
                    ELSE "Working directory changed to: " \o newPath
                           \o "\n" \o Template(v.fileCount) \o " files, "
                           \o Template(v.dirCount) \o " directories found",
                    Null)
      [] kind = "validateDirectory" /\ ValidationBranch(r) = "invalid" ->
            Message(t, t, "error",
                    "Directory validation failed: " \o Template(v.error), Null)

\* lines 134, 144, 162, 172; the catch block of line 176 appends nothing
ValidationMessagesAfter(t, kind, newPath, r) ==
    IF ValidationBranch(r) = "catch" THEN messages
    ELSE Append(messages, ValidationReply(t, kind, newPath, r))

\* the error the catch block of lines 175-176 receives
ValidationCaught(r) == IF r.threw THEN r.message ELSE NullReadMessage

\* lines 136, 164, 176 without the setError(null) of lines 126 and 152
ValidationErrorAfterKeepsOnValid(kind, r) ==
    CASE ValidationBranch(r) = "valid" -> error
      [] ValidationBranch(r) = "invalid" ->
            Some((IF kind = "validateRepository"
                  THEN "Repository validation failed: "
                  ELSE "Invalid directory: ") \o Template(r.value[1].error))
      [] ValidationBranch(r) = "catch" ->
            Some("Failed to validate: " \o ValidationCaught(r))

\* lines 126, 152, 176 without the setError of lines 136 and 164
ValidationErrorAfterCatchOnly(kind, r) ==
    CASE ValidationBranch(r) = "valid" -> Null
      [] ValidationBranch(r) = "invalid" -> error
      [] ValidationBranch(r) = "catch" ->
            Some("Failed to validate: " \o ValidationCaught(r))

\* lines 126, 136, 152, 164, 176
ValidationErrorAfter(kind, r) ==
    CASE ValidationBranch(r) = "valid" -> Null
      [] ValidationBranch(r) = "invalid" ->
            Some((IF kind = "validateRepository"
                  THEN "Repository validation failed: "
                  ELSE "Invalid directory: ") \o Template(r.value[1].error))
      [] ValidationBranch(r) = "catch" ->
            Some("Failed to validate: " \o ValidationCaught(r))

\* setWorkingDirectory(newPath) before the result is looked at
DirectoryAfterUnchecked(newPath, r) == newPath

\* lines 125, 151 with the new value trimmed before it is stored
DirectoryAfterTrimmed(newPath, r) ==
    IF ValidationBranch(r) = "valid" THEN Trim(newPath) ELSE workingDirectory

\* lines 125, 151
DirectoryAfter(newPath, r) ==
    IF ValidationBranch(r) = "valid" THEN newPath ELSE workingDirectory

\* lines 177-179: finally { setIsTyping(false) }
ValidationTypingAfter(r) == FALSE

\* lines 122, 148: the API client function the invocation c awaits
Validate(c, resp) ==
    IF c.kind = "validateRepository" THEN validateRepository(resp)
                                     ELSE validateDirectory(resp)

ValidationResponses(c) ==
    IF c.kind = "validateRepository" THEN RepoResponses ELSE DirResponses

settleValidation(c, resp) ==
    /\ c \in calls /\ c.kind \in {"validateRepository", "validateDirectory"}
    /\ resp \in ValidationResponses(c)
    /\ calls' = calls \ {c}
    /\ LET r == Validate(c, resp) IN
       /\ IF mounted
          THEN \E t \in Readings :
                 /\ now' = IF ValidationBranch(r) = "catch" THEN now ELSE t
                 /\ messages' = ValidationMessagesAfter(t, c.kind, c.arg, r)
                 /\ error' = ValidationErrorAfter(c.kind, r)
                 /\ workingDirectory' = DirectoryAfter(c.arg, r)
                 /\ isTyping' = ValidationTypingAfter(r)
          ELSE UNCHANGED <<messages, error, workingDirectory, isTyping, now>>
       /\ last' = [op |-> "settle", api |-> c.kind,
                   rejected |-> (resp.net = "reject"), threw |-> r.threw,
                   branch |-> ValidationBranch(r)]
    /\ UNCHANGED <<ui, backendStatus, life, healthCalls, dispatched,
                   healthStarted>>

\* ---------------------------------------------------------- health polling
\* an interval that skips its check while a user request is pending
healthTimerGated ==
    /\ interval = "running" /\ ~isTyping
    /\ healthStarted < MaxHealthChecks
    /\ healthStarted' = healthStarted + 1
    /\ healthCalls' = healthCalls \cup {healthStarted + 1}
    /\ last' = [op |-> "healthTimer"]
    /\ UNCHANGED <<ui, messages, isTyping, workingDirectory, backendStatus, error,
                   life, now, calls, dispatched>>

\* the interval of line 35 fires and calls checkHealth
healthTimer ==
    /\ interval = "running"
    /\ healthStarted < MaxHealthChecks
    /\ healthStarted' = healthStarted + 1
    /\ healthCalls' = healthCalls \cup {healthStarted + 1}
    /\ last' = [op |-> "healthTimer"]
    /\ UNCHANGED <<ui, messages, isTyping, workingDirectory, backendStatus, error,
                   life, now, calls, dispatched>>

\* line 26 with the checking flag left as it was
StatusAfterStillChecking(health) ==
    [healthy |-> health.healthy, checking |-> backendStatus.checking]

\* line 26
StatusAfter(health) == [healthy |-> health.healthy, checking |-> FALSE]

\* lines 28-30 with an else branch that clears the error on recovery
HealthErrorAfterClearsOnRecovery(health) ==
    IF ~health.healthy THEN Some(BackendUnavailable) ELSE Null

\* lines 28-30 writing only when no session error is standing
HealthErrorAfterKeepsFirst(health) ==
    IF ~health.healthy /\ error = Null THEN Some(BackendUnavailable) ELSE error

\* lines 28-30
HealthErrorAfter(health) ==
    IF ~health.healthy THEN Some(BackendUnavailable) ELSE error

\* lines 25-30: the check h comes back with resp
settleHealth(h, resp) ==
    /\ h \in healthCalls
    /\ resp \in HealthResponses
    /\ healthCalls' = healthCalls \ {h}
    /\ LET r == checkBackendHealth(resp) IN
       /\ IF mounted
          THEN /\ backendStatus' = StatusAfter(r.value)
               /\ error' = HealthErrorAfter(r.value)
          ELSE UNCHANGED <<backendStatus, error>>
       /\ last' = [op |-> "settle", api |-> "checkBackendHealth",
                   rejected |-> (resp.net = "reject"), threw |-> r.threw,
                   branch |-> IF r.value.healthy THEN "healthy" ELSE "unhealthy"]
    /\ UNCHANGED <<ui, messages, isTyping, workingDirectory, life, now, calls,
                   dispatched, healthStarted>>

\* an effect that returns no cleanup: the interval outlives the component
unmountLeavesTimer ==
    /\ mounted
    /\ mounted' = FALSE
    /\ interval' = interval
    /\ last' = [op |-> "unmount"]
    /\ UNCHANGED <<ui, messages, isTyping, workingDirectory, backendStatus, error,
                   now, calls, healthCalls, dispatched, healthStarted>>

\* line 36: the effect's cleanup, run when the component is unmounted
unmount ==
    /\ mounted
    /\ mounted' = FALSE
    /\ interval' = "cleared"
    /\ last' = [op |-> "unmount"]
    /\ UNCHANGED <<ui, messages, isTyping, workingDirectory, backendStatus, error,
                   now, calls, healthCalls, dispatched, healthStarted>>

\* ------------------------------------------------------ the specifications
settleUser ==
    \/ \E c \in calls, resp \in ChatResponses : settleChat(c, resp)
    \/ \E c \in calls, resp \in RepoResponses \cup DirResponses :
          settleValidation(c, resp)

Next ==
    \/ toggleVerbose
    \/ \E text \in Inputs : changeInput(text)
    \/ clearError
    \/ submitForm
    \/ pressChange
    \/ settleUser
    \/ healthTimer
    \/ \E h \in healthCalls, resp \in HealthResponses : settleHealth(h, resp)

\* the component while it stays mounted
Spec == Init /\ [][Next]_vars

\* every request the backend has been sent is answered or fails in the end
FairSpec == Spec /\ WF_vars(settleUser)


(* The Change button alone, with a wider choice of answers to the dialog:   *)
(* the user changes the target again and again and never types a prompt.   *)
RoutingPaths ==
    { Some("https://github.com/foo/bar"), Some("/home/user/project"),
      Some("git@host:r.git"), Some("/home/.gitignore"), Some("gitlab.com/g"),
      Some("github.com/a"), Some("http://h"), Some("https://h"),
      Some("/srv/https://x"), Some(" ") }

RoutingNext ==
    \/ pressChangeFrom(RoutingPaths)
    \/ \E c \in calls, resp \in RepoResponses \cup DirResponses :
          settleValidation(c, resp)
    \/ clearError
    \/ healthTimer
    \/ \E h \in healthCalls, resp \in HealthResponses : settleHealth(h, resp)

RoutingSpec == Init /\ [][RoutingNext]_vars

(* The component from mount to unmount: the health polling, the Change      *)
(* button and the banner, and the teardown at any moment; requests in       *)
(* flight at the teardown still complete afterwards.                        *)
LifecycleNext ==
    \/ pressChange
    \/ \E c \in calls, resp \in RepoResponses \cup DirResponses :
          settleValidation(c, resp)
    \/ clearError
    \/ healthTimer
    \/ \E h \in healthCalls, resp \in HealthResponses : settleHealth(h, resp)
    \/ unmount

LifecycleSpec == Init /\ [][LifecycleNext]_vars

\* ------------------------------------------------------------- the claims
UserCalls(kind) == {c \in calls : c.kind = kind}

(* C1.  Single-flight: in every reachable state at most one user request    *)
(* (sendPrompt, validateRepository or validateDirectory) is outstanding,    *)
(* however many health checks are in flight.                                *)
C1_SingleFlight == Cardinality(calls) <= 1

\* a request is outstanding together with a health check, and a press of the
\* Change button has just been turned away
C1_Witness ==
    /\ Cardinality(calls) = 1
    /\ healthCalls # {}
    /\ last.op = "change" /\ last.outcome = "disabled"

(* C2.  A press of Change while a request is pending (isTyping) dispatches  *)
(* no validation call and leaves the history, the target, the session       *)
(* error and the pending flag as they are.                                  *)
C2_ChangeGuarded ==
    [][(isTyping /\ pressChange)
          => UNCHANGED <<calls, dispatched, messages, workingDirectory, error,
                         isTyping>>]_vars

C2_Witness ==
    /\ isTyping /\ calls # {}
    /\ last.op = "change" /\ last.outcome = "disabled"

\* a submit while a request is pending changes nothing
C3_SubmitIgnored ==
    [][(isTyping /\ submitForm)
          => UNCHANGED <<calls, dispatched, messages, error, inputMessage,
                         isTyping>>]_vars

C3_OneSendPrompt == Cardinality(UserCalls("sendPrompt")) <= 1

(* C3.  A submit while a request is pending appends no message, leaves the  *)
(* session error and the input buffer alone and dispatches nothing; and at  *)
(* no time is more than one sendPrompt request outstanding.                 *)
C3_SubmitWhilePending == C3_SubmitIgnored /\ []C3_OneSendPrompt

\* a submit has just been ignored while a sendPrompt request is outstanding
C3_Witness ==
    /\ isTyping /\ UserCalls("sendPrompt") # {}
    /\ last.op = "submit" /\ last.outcome = "ignored"


\* the flag is set only while a request is outstanding
C4_NeverStuck == isTyping => calls # {}

(* C4.  Under FairSpec (every request sent is answered or fails): whenever  *)
(* the pending flag is set it is cleared again, whichever branch the        *)
(* handler takes on the result; the flag is never left set with no request  *)
(* outstanding.                                                             *)
C4_ReturnsToIdle == (isTyping ~> ~isTyping) /\ []C4_NeverStuck

\* the handler went through its catch block and the flag is cleared
C4_Witness ==
    /\ ~isTyping /\ calls = {}
    /\ last.op = "settle" /\ last.api = "sendPrompt" /\ last.branch = "catch"

(* C5 as stated: none of the four API client functions throws to its        *)
(* caller when the connection fails.                                        *)
C5_AllCatchLocally == (last.op = "settle" /\ last.rejected) => ~last.threw

(* C5 as amended: on a connection failure validateDirectory,                *)
(* validateRepository and checkBackendHealth return a value, while          *)
(* sendPrompt throws the failure on to handleSendMessage.                   *)
C5_OnlySendPromptThrows ==
    (last.op = "settle" /\ last.rejected)
        => (last.threw <=> last.api = "sendPrompt")

\* a connection failure of validateRepository came back as valid:false
C5_Witness ==
    /\ last.op = "settle" /\ last.rejected
    /\ last.api = "validateRepository" /\ last.branch = "invalid"
    /\ error = Some("Repository validation failed: " \o FetchErrorMessage)

(* C6.  When the request of an accepted submit comes back with success, the *)
(* history is two longer than before the submit: the user message with the  *)
(* submitted text, then an assistant message with the response's text and   *)
(* function names; and the pending flag is cleared.                         *)
C6_SuccessAppendsTwo ==
    [][\A c \in calls, resp \in ChatResponses :
          (settleChat(c, resp) /\ resp.json /\ HttpOk(resp.status)
                /\ resp.data[1].success)
             => /\ Len(messages') = c.base + 2
                /\ SubSeq(messages', 1, c.base) = SubSeq(messages, 1, c.base)
                /\ messages'[c.base + 1].type = "user"
                /\ messages'[c.base + 1].content = c.arg
                /\ messages'[c.base + 2].type = "ai"
                /\ messages'[c.base + 2].content = resp.data[1].finalResponse
                /\ messages'[c.base + 2].functionCalls = Some(<<"get_files_info">>)
                /\ ~isTyping']_vars

C6_Witness ==
    /\ last.op = "settle" /\ last.api = "sendPrompt" /\ last.branch = "success"
    /\ ~isTyping
    /\ Len(messages) >= 3
    /\ messages[Len(messages) - 1].type = "user"
    /\ messages[Len(messages)].type = "ai"
    /\ messages[Len(messages)].content = "answer"

(* C7.  When the request of an accepted submit comes back 2xx with          *)
(* success:false, the history is two longer than before the submit: the    *)
(* user message, then an error message whose text contains the response's   *)
(* error text if it has one; the session error is left as it was.           *)
C7_FailureAppendsError ==
    [][\A c \in calls, resp \in ChatResponses :
          (settleChat(c, resp) /\ resp.json /\ HttpOk(resp.status)
                /\ ~resp.data[1].success)
             => /\ Len(messages') = c.base + 2
                /\ messages'[c.base + 1].type = "user"
                /\ messages'[c.base + 2].type = "error"
                /\ resp.data[1].error # Null
                      => Includes(messages'[c.base + 2].content,
                                  resp.data[1].error[1])
                /\ error' = error]_vars

C7_Witness ==
    /\ last.op = "settle" /\ last.api = "sendPrompt" /\ last.branch = "failure"
    /\ messages[Len(messages)].type = "error"
    /\ messages[Len(messages)].content = "Error: boom"
    /\ error = Null

(* C8.  When the request of an accepted submit fails with an exception,     *)
(* one error message carrying the exception's text is appended, the         *)
(* session error becomes that text, and no request is sent again.           *)
C8_ExceptionSetsBoth ==
    [][\A c \in calls :
          settleChat(c, Rejected)
             => /\ Len(messages') = Len(messages) + 1
                /\ messages'[Len(messages')].type = "error"
                /\ Includes(messages'[Len(messages')].content, FetchErrorMessage)
                /\ error' = Some(FetchErrorMessage)
                /\ calls' = calls \ {c}
                /\ dispatched' = dispatched]_vars

C8_Witness ==
    /\ last.op = "settle" /\ last.api = "sendPrompt" /\ last.rejected
    /\ messages[Len(messages)].type = "error"
    /\ error = Some(FetchErrorMessage)
    /\ calls = {}

\* a string with no character other than white space
IsBlank(text) == \A i \in 1..Len(text) : SubSeq(text, i, i) \in WhiteSpace

(* C9.  A submit with an empty or all-white-space input changes nothing:    *)
(* history, pending flag, session error, input buffer and target stay and   *)
(* no request is dispatched.                                                *)
C9_BlankSubmitIgnored ==
    [][(IsBlank(inputMessage) /\ submitForm)
          => UNCHANGED <<calls, dispatched, messages, isTyping, error,
                         inputMessage, workingDirectory>>]_vars

\* an all-white-space input has just been turned away, nothing else standing
\* in the way of a submit
C9_Witness ==
    /\ last.op = "submit" /\ last.outcome = "ignored"
    /\ inputMessage = " \t"
    /\ ~isTyping /\ backendStatus.healthy


\* the call the claim names for each answer of RoutingPaths
C10_Expected(newPath) ==
    CASE newPath = "https://github.com/foo/bar" -> "validateRepository"
      [] newPath = "/home/user/project" -> "validateDirectory"
      [] newPath = "git@host:r.git" -> "validateRepository"
      [] newPath = "/home/.gitignore" -> "validateRepository"
      [] newPath = "gitlab.com/g" -> "validateRepository"
      [] newPath = "github.com/a" -> "validateRepository"
      [] newPath = "http://h" -> "validateRepository"
      [] newPath = "https://h" -> "validateRepository"
      [] newPath = "/srv/https://x" -> "validateDirectory"
      [] newPath = " " -> "validateDirectory"

(* C10.  Under RoutingSpec: a press of Change that the handler acts on      *)
(* sends exactly one request, validateRepository for an answer that         *)
(* contains github.com, gitlab.com or .git or starts with http:// or        *)
(* https://, and validateDirectory for any other.                           *)
C10_OneValidationCall ==
    [][(last'.op = "change" /\ last'.outcome = "dispatched")
          => \E c \in calls' :
                /\ c \notin calls
                /\ calls' = calls \cup {c}
                /\ Some(c.arg) \in RoutingPaths
                /\ c.kind = C10_Expected(c.arg)]_vars

\* an answer that only its ".git" makes a Git reference has gone to
\* validateRepository
C10_Witness ==
    /\ last.op = "change" /\ last.outcome = "dispatched"
    /\ \E c \in calls : c.arg = "git@host:r.git" /\ c.kind = "validateRepository"


\* this step is handleDirectoryChange resuming from its await into `branch`
ValidationSettles(branch) ==
    /\ last'.op = "settle"
    /\ last'.api \in {"validateRepository", "validateDirectory"}
    /\ last'.branch = branch

\* this step appends exactly one message, of the given type
AppendsOne(type) ==
    /\ Len(messages') = Len(messages) + 1
    /\ SubSeq(messages', 1, Len(messages)) = messages
    /\ messages'[Len(messages')].type = type

(* C11.  Under RoutingSpec: when the validation call of a target change     *)
(* comes back valid, the target becomes the value the user entered,         *)
(* character for character, and exactly one system message is appended.     *)
C11_ValidReplacesTarget ==
    [][ValidationSettles("valid")
          => \A c \in calls \ calls' :
                /\ workingDirectory' = c.arg
                /\ AppendsOne("system")]_vars

\* the blank-only answer " " was validated and is the target, untrimmed
C11_Witness ==
    /\ last.op = "settle" /\ last.api = "validateDirectory"
    /\ last.branch = "valid"
    /\ workingDirectory = " "
    /\ messages[Len(messages)].type = "system"

(* C12.  Under RoutingSpec: when the validation call of a target change     *)
(* comes back with valid false, be it the backend's answer or the API       *)
(* client's translation of a connection failure, the session error is set,  *)
(* exactly one error message is appended, the target keeps its value and    *)
(* no further request is sent.                                              *)
C12_InvalidSetsError ==
    [][ValidationSettles("invalid")
          => /\ Truthy(error')
             /\ AppendsOne("error")
             /\ workingDirectory' = workingDirectory
             /\ dispatched' = dispatched
             /\ calls' = {}]_vars

\* a connection failure of validateDirectory ended as an error message, with
\* the target still the default
C12_Witness ==
    /\ last.op = "settle" /\ last.api = "validateDirectory"
    /\ last.rejected /\ last.branch = "invalid"
    /\ error = Some("Invalid directory: " \o FetchErrorMessage)
    /\ messages[Len(messages)].type = "error"
    /\ workingDirectory = DefaultDirectory

\* the target changes only when a validation comes back valid, and then to
\* the non-empty value that was validated
C13_OnlyValidationReplaces ==
    [][workingDirectory' # workingDirectory
          => /\ ValidationSettles("valid")
             /\ \E c \in calls \ calls' :
                   workingDirectory' = c.arg /\ c.arg # ""]_vars

C13_NeverEmpty == workingDirectory # ""

(* C13.  The target is never empty; it starts as the default and changes    *)
(* only in the step in which a validation of the new value comes back       *)
(* valid: a submit, its completion, clearError, a health check and a        *)
(* failed validation all leave it alone.                                    *)
C13_TargetStable == C13_OnlyValidationReplaces /\ []C13_NeverEmpty

\* a validated target has survived a later failed request to the chat endpoint
C13_Witness ==
    /\ workingDirectory = "/home/user/project"
    /\ last.op = "settle" /\ last.api = "sendPrompt" /\ last.branch = "catch"

(* C14.  A clearError, in whatever state it is called, leaves the session   *)
(* error at none and does not touch the history, the target, the pending    *)
(* flag or the backend status.                                              *)
C14_ClearErrorFrame ==
    [][last'.op = "clearError"
          => /\ error' = Null
             /\ UNCHANGED <<messages, workingDirectory, isTyping,
                            backendStatus>>]_vars

\* the banner was dismissed while a request was pending, the backend was
\* marked unhealthy and the history held more than the greeting
C14_Witness ==
    /\ last.op = "clearError" /\ error = Null
    /\ isTyping /\ calls # {}
    /\ ~backendStatus.healthy /\ ~backendStatus.checking
    /\ Len(messages) > 1

\* the latest event is the completion of a health check with this result
HealthSettled(branch) ==
    /\ last.op = "settle" /\ last.api = "checkBackendHealth"
    /\ last.branch = branch

(* C15.  Right after a health check completes the backend status mirrors    *)
(* its result: unhealthy leaves healthy false, healthy leaves healthy true  *)
(* and checking false.                                                      *)
C15_StatusMirrorsCheck ==
    /\ HealthSettled("unhealthy") => ~backendStatus.healthy
    /\ HealthSettled("healthy")
          => backendStatus = [healthy |-> TRUE, checking |-> FALSE]

\* the timer's check succeeded after the startup check: the status is healthy
C15_Witness ==
    /\ HealthSettled("healthy")
    /\ healthStarted = 1 /\ healthCalls = {}
    /\ backendStatus.healthy /\ ~backendStatus.checking

\* what the claim calls a failed check: no connection, a status outside
\* 200..299, or a body that is not JSON
C16_Fails(resp) ==
    \/ resp.net = "reject"
    \/ resp.status < 200 \/ resp.status > 299
    \/ ~resp.json

(* C16.  checkBackendHealth throws for no answer of the backend: a          *)
(* connection failure, a status outside 2xx and an unparsable body each     *)
(* give healthy false, so healthy true comes only from a 2xx response.      *)
C16_HealthNeverThrows ==
    [][\A h \in healthCalls, resp \in HealthResponses :
          settleHealth(h, resp)
             => /\ ~last'.threw
                /\ C16_Fails(resp) => last'.branch = "unhealthy"
                /\ last'.branch = "healthy" => resp.status \in 200..299]_vars

\* a check the backend did answer, with a status outside 2xx or a body that
\* is not JSON, was reported unhealthy without a throw
C16_Witness ==
    /\ HealthSettled("unhealthy") /\ ~last.rejected /\ ~last.threw
    /\ ~backendStatus.healthy /\ ~backendStatus.checking
    /\ error = Some(BackendUnavailable)
    /\ healthStarted = 0

(* C17.  Right after a health check that reports unhealthy the session      *)
(* error is the fixed backend-unavailable text, whatever it was before:     *)
(* the latest write wins over an error of a validation or of a request.     *)
C17_UnhealthyOverwritesError ==
    HealthSettled("unhealthy") => error = Some(BackendUnavailable)

\* the timer's check failed after a validation had failed and left its own
\* error message in the history
C17_Witness ==
    /\ HealthSettled("unhealthy") /\ healthStarted = 1
    /\ error = Some(BackendUnavailable)
    /\ Len(messages) = 2 /\ messages[2].type = "error"
    /\ backendStatus = [healthy |-> FALSE, checking |-> FALSE]

\* the start of a health check and its completion leave the pending flag,
\* the history, the target, the input buffer and the user requests alone
C18_HealthFrame ==
    [][(last'.op = "healthTimer"
          \/ (last'.op = "settle" /\ last'.api = "checkBackendHealth"))
          => UNCHANGED <<isTyping, messages, workingDirectory, inputMessage,
                         calls, dispatched>>]_vars

\* a pending user request does not hold back the next tick of the timer
C18_TickNotGated ==
    (isTyping /\ interval = "running" /\ healthStarted < MaxHealthChecks)
        => ENABLED healthTimer

(* C18.  The periodic health check is independent of the single-flight      *)
(* gate: a tick starts a check whether or not a user request is pending,    *)
(* and neither the start of a check nor its completion changes the pending  *)
(* flag, the history, the target or the input buffer.                       *)
C18_HealthIndependent == C18_HealthFrame /\ []C18_TickNotGated

\* a check was started by the timer while a user request was pending
C18_Witness ==
    /\ last.op = "healthTimer"
    /\ isTyping /\ calls # {}
    /\ healthStarted = 1 /\ 1 \in healthCalls

\* at startup one check is in flight and the one timer is running
C19_StartupCheck ==
    healthCalls = {0} /\ healthStarted = 0 /\ interval = "running"

\* every tick of the running timer starts one more check
C19_TickStartsCheck ==
    [][last'.op = "healthTimer"
          => /\ interval = "running"
             /\ healthStarted' = healthStarted + 1
             /\ healthCalls' = healthCalls \cup {healthStarted'}]_vars

\* the timer is never started a second time
C19_TimerStartedOnce == [][interval = "cleared" => interval' = "cleared"]_vars

\* the teardown cancels the timer
C19_TeardownCancels == ~mounted => interval = "cleared"

\* after the teardown no check is started
C19_NoCheckAfterTeardown ==
    [][~mounted => (healthStarted' = healthStarted
                      /\ healthCalls' \subseteq healthCalls)]_vars

(* C19.  Under LifecycleSpec: one health check runs at startup and one on   *)
(* every tick of a single interval timer that is started once; the          *)
(* teardown cancels the timer and from then on no health check is started.  *)
C19_PollingLifecycle ==
    /\ C19_StartupCheck
    /\ C19_TickStartsCheck
    /\ C19_TimerStartedOnce
    /\ []C19_TeardownCancels
    /\ C19_NoCheckAfterTeardown

\* the component was torn down with a timer-started check in flight, which
\* has completed since
C19_Witness ==
    /\ ~mounted /\ interval = "cleared"
    /\ HealthSettled("unhealthy")
    /\ healthStarted = 1 /\ healthCalls = {}

(* C20.  While the backend is marked unhealthy no prompt is submitted: a    *)
(* step taken in a state with healthy false sends no sendPrompt request.    *)
C20_UnhealthyBlocksSubmit ==
    [][~backendStatus.healthy
          => UserCalls("sendPrompt")' \subseteq UserCalls("sendPrompt")]_vars

\* a submit of a non-blank prompt, with no request pending, was ignored
\* because the backend had been marked unhealthy
C20_Witness ==
    /\ last.op = "submit" /\ last.outcome = "ignored"
    /\ ~backendStatus.healthy /\ ~backendStatus.checking
    /\ IsBlank(inputMessage) = FALSE /\ ~isTyping

\* the message the claim names for a non-2xx response: the body's error text
\* if the body has one, else the text made from the status
C21_Expected(resp) ==
    IF resp.json /\ resp.data # Null /\ Truthy(resp.data[1].error)
    THEN resp.data[1].error[1]
    ELSE "HTTP error! status: " \o StatusText(resp.status)

(* C21.  Whenever a sendPrompt request is answered with a status outside    *)
(* 2xx, JSON body or not, the failure that reaches the session error        *)
(* carries the body's error text if the body has one, and else the text     *)
(* made from the status.                                                    *)
C21_NonOkMessage ==
    [][\A c \in calls, resp \in ChatResponses :
          (settleChat(c, resp) /\ resp.net = "response" /\ ~HttpOk(resp.status))
             => /\ last'.threw
                /\ error' = Some(C21_Expected(resp))]_vars

\* a 500 response with a body that is not JSON has surfaced the parser's
\* message, not one made from the status
C21_Witness ==
    /\ last.op = "settle" /\ last.api = "sendPrompt"
    /\ ~last.rejected /\ last.threw
    /\ error = Some(JsonErrorMessage)
    /\ messages[Len(messages)].content
          = "Failed to process request: " \o JsonErrorMessage

(* C22.  The history is append-only: in every step the history before is a  *)
(* prefix of the history after, so no message is removed, moved or changed. *)
C22_AppendOnly ==
    [][/\ Len(messages') >= Len(messages)
       /\ SubSeq(messages', 1, Len(messages)) = messages]_vars

\* two requests have been answered: the history holds the greeting and four
\* more messages
C22_Witness ==
    /\ Len(messages) = 5 /\ calls = {}
    /\ messages[1].content = Greeting
    /\ messages[2].type = "user" /\ messages[4].type = "user"

(* C23.  In every reachable state the ids of the messages are strictly      *)
(* increasing in history order, hence pairwise distinct, with a clock that  *)
(* never goes back between events.                                          *)
C23_IdsIncreasing ==
    \A i \in 1..(Len(messages) - 1) : messages[i].id < messages[i + 1].id

\* a reply and the message after it carry the same id
C23_Witness ==
    \E i \in 1..(Len(messages) - 1) :
        /\ messages[i].type \in {"ai", "error"}
        /\ messages[i + 1].id = messages[i].id
        /\ messages[i + 1].timestamp > messages[i].timestamp

\* a request is taken out of flight only by its completion
C24_NeverCancelled ==
    [][calls' # calls /\ calls' \subseteq calls => last'.op = "settle"]_vars

\* the completion of a sendPrompt request appends its one reply right after
\* the request's own user message
C24_OneReply ==
    [][(last'.op = "settle" /\ last'.api = "sendPrompt")
          => \A c \in calls \ calls' :
                /\ c \notin calls'
                /\ Len(messages) = c.base + 1
                /\ messages[c.base + 1].type = "user"
                /\ messages[c.base + 1].content = c.arg
                /\ Len(messages') = c.base + 2
                /\ SubSeq(messages', 1, c.base + 1) = messages
                /\ messages'[c.base + 2].type \in {"ai", "error"}]_vars

(* C24.  Every sendPrompt request that completes has its result put into    *)
(* the history once: one assistant or error message right after the         *)
(* request's user message, whatever happened while the request was in       *)
(* flight; and no request is ever cancelled.                                *)
C24_ResultFoldedOnce == C24_OneReply /\ C24_NeverCancelled

\* a request was answered after a health check, completed while the request
\* was in flight, had marked the backend unhealthy
C24_Witness ==
    /\ last.op = "settle" /\ last.api = "sendPrompt" /\ last.branch = "success"
    /\ ~backendStatus.healthy /\ error = Some(BackendUnavailable)
    /\ messages[Len(messages)].type = "ai"
    /\ messages[Len(messages) - 1].type = "user"

(* C25.  The state right after construction: no request pending, a history  *)
(* of exactly one assistant message (the greeting), the target at the       *)
(* sample repository URL, the backend status healthy false and checking     *)
(* true, and no session error.                                              *)
C25_InitialState ==
    last.op = "mount"
        => /\ isTyping = FALSE /\ calls = {}
           /\ Len(messages) = 1
           /\ messages[1].type = "ai" /\ messages[1].id = 1
           /\ workingDirectory = "https://github.com/microsoft/calculator"
           /\ backendStatus = [healthy |-> FALSE, checking |-> TRUE]
           /\ error = Null

\* the component has just been mounted; its first health check is in flight
C25_Witness ==
    /\ last.op = "mount"
    /\ healthCalls = {0} /\ healthStarted = 0 /\ dispatched = 0
    /\ inputMessage = "" /\ ~verboseMode

(* C26.  An accepted submit, before its request is awaited, clears the      *)
(* session error, appends one user message with the input as typed          *)
(* (untrimmed), empties the input buffer and sets the pending flag; the     *)
(* one sendPrompt request it sends carries that same text and the target    *)
(* and the verbose flag of the moment of the submit.                        *)
C26_AcceptedSubmit ==
    [][(last'.op = "submit" /\ last'.outcome = "dispatched")
          => /\ error' = Null
             /\ AppendsOne("user")
             /\ messages'[Len(messages')].content = inputMessage
             /\ inputMessage' = ""
             /\ isTyping'
             /\ \E c \in calls' :
                   /\ calls' = calls \cup {c} /\ c \notin calls
                   /\ c.kind = "sendPrompt"
                   /\ c.arg = inputMessage
                   /\ c.workingDirectory = workingDirectory
                   /\ c.verbose = verboseMode]_vars

\* " hi " was submitted in verbose mode against a target the user had set
C26_Witness ==
    /\ last.op = "submit" /\ last.outcome = "dispatched"
    /\ messages[Len(messages)].content = " hi "
    /\ inputMessage = "" /\ isTyping /\ error = Null
    /\ \E c \in calls :
          /\ c.arg = " hi " /\ c.verbose
          /\ c.workingDirectory = "/home/user/project"

(* C27.  In every reachable state the pending flag is set exactly when a    *)
(* user request (sendPrompt or a validation) is outstanding; no completion  *)
(* clears the flag while another user request is still in flight.           *)
C27_FlagIffOutstanding == isTyping <=> calls # {}

\* the second of two requests has completed and the flag is down
C27_Witness ==
    /\ last.op = "settle" /\ last.api # "checkBackendHealth"
    /\ dispatched = 2 /\ calls = {} /\ ~isTyping

\* the checks started after h that have completed already
C28_NewerCompleted(h) ==
    {k \in 1..healthStarted : k > h /\ k \notin healthCalls}

(* C28.  The backend status is that of the most recently started health     *)
(* check among the completed ones: the result of a check that arrives       *)
(* after a check started later has completed does not change the status.    *)
C28_LateResultIgnored ==
    [][\A h \in healthCalls, resp \in HealthResponses :
          (settleHealth(h, resp) /\ C28_NewerCompleted(h) # {})
             => backendStatus' = backendStatus]_vars

\* the timer's check has come back healthy and the startup check is still
\* in flight
C28_Witness ==
    /\ healthCalls = {0} /\ healthStarted = 1
    /\ HealthSettled("healthy")
    /\ backendStatus = [healthy |-> TRUE, checking |-> FALSE]

\* the session error is taken down only by clearError, by an accepted
\* submit or by a validation that comes back valid
C29_ClearedOnlyBy ==
    [][(error # Null /\ error' = Null)
          => \/ last'.op = "clearError"
             \/ (last'.op = "submit" /\ last'.outcome = "dispatched")
             \/ ValidationSettles("valid")]_vars

\* a health check that reports healthy does not touch the session error
C29_HealthyKeepsError ==
    [][(last'.op = "settle" /\ last'.api = "checkBackendHealth"
          /\ last'.branch = "healthy") => error' = error]_vars

(* C29.  A health check that reports healthy leaves the session error as    *)
(* it is: the backend-unavailable error of an earlier check survives the    *)
(* recovery and stays until clearError, an accepted submit or a valid       *)
(* target change takes it down or another error replaces it.                *)
C29_RecoveryKeepsError == C29_HealthyKeepsError /\ C29_ClearedOnlyBy

\* the backend is healthy again and the backend-unavailable error stands
C29_Witness ==
    /\ HealthSettled("healthy") /\ healthStarted = 1
    /\ backendStatus.healthy
    /\ error = Some(BackendUnavailable)

(* C30.  Under RoutingSpec: a validation that comes back valid, on the Git  *)
(* route or on the directory route, leaves the session error at none,       *)
(* whatever error was standing.                                             *)
C30_ValidClearsError ==
    [][ValidationSettles("valid") => error' = Null]_vars

\* a Git reference was validated and the error is none although the backend
\* is marked unhealthy
C30_Witness ==
    /\ last.op = "settle" /\ last.api = "validateRepository"
    /\ last.branch = "valid"
    /\ error = Null /\ workingDirectory = "git@host:r.git"
    /\ ~backendStatus.healthy /\ ~backendStatus.checking

\* the answers the claim is about: the dialog cancelled, or confirmed empty
C31_NoValue == {Null, Some("")}

(* C31.  A press of Change answered with an empty value or cancelled is a   *)
(* no-op: no validation request is sent, the pending flag is not set, and   *)
(* the history, the target and the session error stay as they are.          *)
C31_EmptyChangeIgnored ==
    [][\A newPath \in C31_NoValue :
          (~isTyping /\ pressChangeFrom({newPath}))
             => UNCHANGED <<calls, dispatched, isTyping, messages,
                            workingDirectory, error>>]_vars

\* the handler has just returned at its first test, with a session error
\* standing and a history longer than the greeting
C31_Witness ==
    /\ last.op = "change" /\ last.outcome = "returned"
    /\ ~isTyping /\ calls = {}
    /\ error # Null /\ Len(messages) > 1

=============================================================================
